---- MODULE Spec2Model ----
(***************************************************************************)
(* Model of the YouTube ETL pipeline: the Fetcher of etl/extract.py        *)
(* (extract_videos_for_query, save_response, run_extract) and the Sink     *)
(* Writer of etl/load.py (ensure_table, load_csv, run_load).               *)
(*                                                                         *)
(* The specifications share the variables:                                 *)
(*   SpecFetch      one call of extract_videos_for_query against an API    *)
(*                  that answers every request with an HttpError or a page *)
(*   SpecFetchLive  the same call against an API that may fail and may     *)
(*                  serve pages without end, with fairness                 *)
(*   SpecExtract    one invocation of run_extract over a list of queries   *)
(*   Spec           one client calling ensure_table and load_csv in any    *)
(*                  order                                                  *)
(*   SpecConc       two clients doing so concurrently on one destination   *)
(*   SpecRun        run_load invoked by the scheduler, several times       *)
(*   SpecComm       two CSVs loaded in both orders into one starting table *)
(***************************************************************************)
EXTENDS Integers, Sequences, FiniteSets, Bags, TLC

(***************************************************************************)
(* Bounds of the model.                                                    *)
(***************************************************************************)
\* HttpError answers the API gives during one call.
MaxFailures == 2
\* Pages the API serves with a continuation token before its result set ends.
MaxPages == 3
\* load_csv calls (transactions begun) of the single client.
MaxLoads == 2
\* load_csv calls (transactions begun) of the two concurrent clients together.
MaxConcLoads == 2
\* invocations of run_load in a row
MaxRuns == 2
\* half seconds that pass during one run_extract
MaxTicks == 3

(***************************************************************************)
(* Program constants.                                                      *)
(***************************************************************************)
DEFAULT_MAX_RESULTS_PER_QUERY == 50
RETRY_SLEEP == 60
SLEEP_BETWEEN_PAGES == 1

VARIABLES
    \* ---- Fetcher: extract_videos_for_query
    f_pc,             \* "start", "loop", "wait", "done", "raised"
    api_key,          \* TRUE when a key was passed or YT_API_KEY is set
    max_total,        \* the cap on items
    collected,        \* items accumulated, as a sequence of page chunks
    next_page_token,  \* NoToken or the token of the last page
    request,          \* the request in flight / last issued
    requests,         \* number of requests issued
    failures,         \* number of HttpError answers
    lastSleep,        \* seconds of the last time.sleep
    lastResp,         \* kind of the last answer: "none", "error", "empty", "last", "more"
    result,           \* the returned list (chunks), once f_pc = "done"
    \* ---- Sink Writer: ensure_table, load_csv
    dialect,          \* engine.dialect.name
    table,            \* the committed DestinationTable
    stage,            \* the table _tmp_youtube_load
    writer,           \* the client whose open transaction holds the write lock
    clock,            \* transactions begun; NOW() of the latest one
    pc,               \* per client: position inside load_csv
    df,               \* per client: the DataFrame read from the CSV
    csv,              \* per client: the CSV rows of the call
    txnTime,          \* per client: NOW() of its transaction
    work,             \* per client: the table as its open transaction sees it
    before,           \* per client: the committed table when the call began
    last,             \* the last completed load_csv call
    \* ---- Sink Writer: run_load
    rl_pc,            \* "start", "pull", "connect", "ensure", "loop", "returned", "raised"
    db_url,           \* TRUE when params['db_url'] or DB_URL is set
    processed_paths,  \* what xcom_pull returns: Absent or a list of CSVs
    rl_i,             \* iterations of the for loop begun (the artifact in hand)
    rl_err,           \* the exception that left run_load, or "none"
    rl_ops,           \* what this run did to the destination: connect, ensure, load
    rl_runs,          \* invocations of run_load so far
    \* ---- Fetcher: run_extract, save_response
    x_pc,             \* "start", "fetch", "save", "pushed", "raised"
    query_list,       \* the queries of the run, each a sequence of characters
    x_i,              \* the query in hand (1-based), 0 before the loop
    paths,            \* the list `paths` of run_extract
    files,            \* RAW_DATA_DIR: path -> [data, writes]
    now,              \* datetime.utcnow(), in whole seconds
    xcom,             \* the value pushed under raw_paths, or NotPushed
    \* ---- two orders of loading two CSVs into the same starting table
    c_pc,             \* "start", "half", "both"
    c_A, c_B,         \* the two CSVs
    c_ab, c_ba        \* the table when A is loaded first / when B is loaded first

fvars == <<f_pc, api_key, max_total, collected, next_page_token, request,
           requests, failures, lastSleep, lastResp, result>>
svars == <<dialect, table, stage, writer, clock, pc, df, csv, txnTime, work,
           before, last>>
rvars == <<rl_pc, db_url, processed_paths, rl_i, rl_err, rl_ops, rl_runs>>
evars == <<x_pc, query_list, x_i, paths, files, now, xcom>>
cvars == <<c_pc, c_A, c_B, c_ab, c_ba>>
xvars == <<rvars, evars, cvars>>
vars == <<fvars, svars, xvars>>

Min(a, b) == IF a <= b THEN a ELSE b

(***************************************************************************)
(* FETCHER                                                                 *)
(*                                                                         *)
(* An item is identified by the page that served it and its position in    *)
(* that page, so a list of items is a sequence of chunks [page, n]: the    *)
(* first n items of the page asked for with token `page`.                  *)
(***************************************************************************)
NoToken == 0

\* Values of max_total tried, and the page sizes the API answers with (a page
\* may hold more items than maxResults asked for).
MaxTotals == {0, 1, 20, 50, 51, 70, 120}
PageSizes == {0, 1, 20, 50}

RECURSIVE Count(_)
\* len() of a list of items held as chunks.
Count(chunks) ==
    IF chunks = <<>> THEN 0 ELSE Head(chunks).n + Count(Tail(chunks))

RECURSIVE Take(_, _)
\* chunks[:k], the first k items (k >= 0).
Take(chunks, k) ==
    IF chunks = <<>> \/ k <= 0 THEN <<>>
    ELSE IF Head(chunks).n <= k
         THEN <<Head(chunks)>> \o Take(Tail(chunks), k - Head(chunks).n)
         ELSE <<[Head(chunks) EXCEPT !.n = k]>>

\* collected.extend(items)
Extend(chunks, page, n) == Append(chunks, [page |-> page, n |-> n])

\* A return without the slice: `return collected`.
ReturnValueUncut(chunks, cap) == chunks

\* return collected[:max_total]
ReturnValue(chunks, cap) == Take(chunks, cap)

\* A request that always asks for a full page.
PageSizeFull(cap, have) == DEFAULT_MAX_RESULTS_PER_QUERY

\* maxResults of the next request
PageSize(cap, have) == Min(DEFAULT_MAX_RESULTS_PER_QUERY, cap - have)

\* A loop that never tests the token.
TokenAbsentNever(tok) == FALSE

\* `not next_page_token`
TokenAbsent(tok) == tok = NoToken

NoRequest == [maxResults |-> 0, pageToken |-> NoToken]

InitFetchVars ==
    /\ f_pc = "start"
    /\ collected = <<>>
    /\ next_page_token = NoToken
    /\ request = NoRequest
    /\ requests = 0
    /\ failures = 0
    /\ lastSleep = 0
    /\ lastResp = "none"
    /\ result = <<>>

\* lines 55-61: the key check and the initialisation
FetchStart ==
    /\ f_pc = "start"
    /\ f_pc' = IF api_key THEN "loop" ELSE "raised"
    /\ UNCHANGED <<api_key, max_total, collected, next_page_token, request,
                   requests, failures, lastSleep, lastResp, result>>
    /\ UNCHANGED <<svars, xvars>>

\* line 63 false, line 94
FetchLoopExit ==
    /\ f_pc = "loop"
    /\ ~(Count(collected) < max_total)
    /\ result' = ReturnValue(collected, max_total)
    /\ f_pc' = "done"
    /\ UNCHANGED <<api_key, max_total, collected, next_page_token, request,
                   requests, failures, lastSleep, lastResp>>
    /\ UNCHANGED <<svars, xvars>>

\* line 63 true, lines 65-73: the request is built and sent; issued is the
\* number of requests it makes
FetchRequestAs(issued) ==
    /\ f_pc = "loop"
    /\ Count(collected) < max_total
    /\ request' = [maxResults |-> PageSize(max_total, Count(collected)),
                   pageToken |-> next_page_token]
    /\ requests' = issued
    /\ f_pc' = "wait"
    /\ UNCHANGED <<api_key, max_total, collected, next_page_token, failures,
                   lastSleep, lastResp, result>>
    /\ UNCHANGED <<svars, xvars>>

\* No handler: the HttpError leaves the call.
FetchHttpErrorRaises ==
    /\ f_pc = "wait"
    /\ failures < MaxFailures
    /\ failures' = failures + 1
    /\ lastResp' = "error"
    /\ f_pc' = "raised"
    /\ UNCHANGED <<api_key, max_total, collected, next_page_token, request,
                   requests, lastSleep, result>>
    /\ UNCHANGED <<svars, xvars>>

\* A handler that starts the pagination over: the token is forgotten.
FetchHttpErrorResets ==
    /\ f_pc = "wait"
    /\ failures < MaxFailures
    /\ failures' = failures + 1
    /\ lastSleep' = RETRY_SLEEP
    /\ lastResp' = "error"
    /\ next_page_token' = NoToken
    /\ f_pc' = "loop"
    /\ UNCHANGED <<api_key, max_total, collected, request, requests, result>>
    /\ UNCHANGED <<svars, xvars>>

\* lines 74-78: HttpError, sleep 60 s, retry
FetchHttpError ==
    /\ f_pc = "wait"
    /\ failures < MaxFailures
    /\ failures' = failures + 1
    /\ lastSleep' = RETRY_SLEEP
    /\ lastResp' = "error"
    /\ f_pc' = "loop"
    /\ UNCHANGED <<api_key, max_total, collected, next_page_token, request,
                   requests, result>>
    /\ UNCHANGED <<svars, xvars>>

\* lines 80-83: an empty page ends the loop
FetchEmptyPage ==
    /\ f_pc = "wait"
    /\ lastResp' = "empty"
    /\ result' = ReturnValue(collected, max_total)
    /\ f_pc' = "done"
    /\ UNCHANGED <<api_key, max_total, collected, next_page_token, request,
                   requests, failures, lastSleep>>
    /\ UNCHANGED <<svars, xvars>>

\* lines 85-92: a page of n > 0 items with nextPageToken tok, from an API
\* whose result set has at most limit pages after the first
FetchPageOf(limit) ==
    /\ f_pc = "wait"
    /\ \E n \in PageSizes \ {0} :
       \E tok \in {NoToken, request.pageToken + 1} :
        /\ tok # NoToken => tok <= limit
        /\ collected' = Extend(collected, request.pageToken, n)
        /\ next_page_token' = tok
        /\ lastResp' = IF tok = NoToken THEN "last" ELSE "more"
        /\ IF TokenAbsent(tok)
           THEN /\ result' = ReturnValue(collected', max_total)
                /\ f_pc' = "done"
                /\ UNCHANGED lastSleep
           ELSE /\ lastSleep' = SLEEP_BETWEEN_PAGES
                /\ f_pc' = "loop"
                /\ UNCHANGED result
    /\ UNCHANGED <<api_key, max_total, request, requests, failures>>
    /\ UNCHANGED <<svars, xvars>>

FetchRequest == FetchRequestAs(requests + 1)

FetchPage == FetchPageOf(MaxPages)

\* The request where requests are not counted (a call that is answered
\* HttpError for ever issues any number of them).
FetchRequestUncounted == FetchRequestAs(requests)

\* An API without end: a request is issued with fewer than max_total items
\* held, each page holds an item, so no token asked for reaches max_total and
\* this limit refuses no token.
FetchPageEndless == FetchPageOf(max_total)

\* lines 74-78 again, past the failures counted: the API may fail for ever
FetchHttpErrorAgain ==
    /\ f_pc = "wait"
    /\ failures = MaxFailures
    /\ lastSleep' = RETRY_SLEEP
    /\ lastResp' = "error"
    /\ f_pc' = "loop"
    /\ UNCHANGED <<api_key, max_total, collected, next_page_token, request,
                   requests, failures, result>>
    /\ UNCHANGED <<svars, xvars>>

NextFetch ==
    \/ FetchStart
    \/ FetchLoopExit
    \/ FetchRequest
    \/ FetchHttpError
    \/ FetchEmptyPage
    \/ FetchPage

(***************************************************************************)
(* SINK WRITER                                                             *)
(*                                                                         *)
(* A CSV row carries video_id, title and published_at as text; the columns *)
(* channel_title, description and query_tag travel exactly as title does   *)
(* (read, staged, inserted and SET from EXCLUDED) and are represented by   *)
(* it.  The DestinationTable is a bag of rows, since a table without a     *)
(* primary key can hold the same row twice.                                *)
(***************************************************************************)
Clients == {"r1", "r2"}
NoClient == "none"

GoodDate == "2024-05-01T10:00:00Z"
BadDate == "not-a-date"
NaT == "NaT"

\* The rows in a fixed order, and the CSV files loaded: one or two rows each.
\* Neither the merge statement nor the append depends on the order of the rows
\* of one CSV, so a two-row CSV is taken in one order only.
RowList ==
    <<[video_id |-> "V1", title |-> "A", published_at |-> GoodDate],
      [video_id |-> "V1", title |-> "B", published_at |-> GoodDate],
      [video_id |-> "V2", title |-> "A", published_at |-> GoodDate],
      [video_id |-> "V2", title |-> "B", published_at |-> GoodDate],
      [video_id |-> "V1", title |-> "A", published_at |-> BadDate],
      [video_id |-> "V2", title |-> "A", published_at |-> BadDate]>>
Batches ==
    {<<RowList[i]>> : i \in DOMAIN RowList}
        \cup {<<RowList[p[1]], RowList[p[2]]>> :
                p \in {q \in (DOMAIN RowList) \X (DOMAIN RowList) : q[1] <= q[2]}}

\* errors="ignore": an unparsable value is passed through.
ToDatetimeIgnore(s) ==
    CASE s = GoodDate -> "2024-05-01 10:00:00"
      [] OTHER -> s

\* pd.to_datetime(..., errors="coerce"): a parsed timestamp, or NaT
ToDatetime(s) ==
    CASE s = GoodDate -> "2024-05-01 10:00:00"
      [] OTHER -> NaT

\* lines 86-89: read_csv, then the published_at column converted
ReadCsv(b) == [i \in DOMAIN b |-> [b[i] EXCEPT !.published_at = ToDatetime(@)]]

NoTable == [exists |-> FALSE, pk |-> FALSE, rows |-> EmptyBag]
\* the table of the DDL: video_id TEXT PRIMARY KEY, ..., loaded_at DEFAULT NOW()
EnsuredTable == [exists |-> TRUE, pk |-> TRUE, rows |-> EmptyBag]
NoStage == [exists |-> FALSE, rows |-> <<>>]

Keys(d) == {d[i].video_id : i \in DOMAIN d}
HasDuplicateKey(d) ==
    \E i \in DOMAIN d : \E j \in DOMAIN d : i # j /\ d[i].video_id = d[j].video_id
RowsWithKey(rows, k) == {x \in BagToSet(rows) : x.video_id = k}
TableKeys(rows) == {x.video_id : x \in BagToSet(rows)}

\* a new row: loaded_at takes its DEFAULT NOW()
InsertRow(new, t) ==
    [video_id |-> new.video_id, title |-> new.title,
     published_at |-> new.published_at, loaded_at |-> t]

RECURSIVE SeqToBag(_, _)
\* the rows of a DataFrame as inserted, loaded_at t
SeqToBag(d, t) ==
    IF d = <<>> THEN EmptyBag
    ELSE SetToBag({InsertRow(Head(d), t)}) (+) SeqToBag(Tail(d), t)

\* ON CONFLICT (video_id) DO NOTHING.
ConflictRowDoNothing(old, new, t) == old

\* ON CONFLICT (video_id) DO UPDATE SET ...: the SET list names title,
\* channel_title, published_at, description and query_tag, not loaded_at
ConflictRow(old, new, t) ==
    [video_id |-> old.video_id, title |-> new.title,
     published_at |-> new.published_at, loaded_at |-> old.loaded_at]

\* The merge statement raises: no such table, no unique index on video_id for
\* ON CONFLICT, or a second row of the statement hits the row the first one
\* inserted or updated ("cannot affect row a second time").
MergeError(tbl, d) == ~tbl.exists \/ ~tbl.pk \/ HasDuplicateKey(d)

\* A plain INSERT ... SELECT into a table that lets the key repeat.
UpsertAppendOnly(rows, d, t) == rows (+) SeqToBag(d, t)

\* lines 97-108: INSERT ... SELECT ... FROM staged ON CONFLICT DO UPDATE
Upsert(rows, d, t) ==
    LET kept == [x \in {y \in BagToSet(rows) : y.video_id \notin Keys(d)} |-> rows[x]]
        merged == {IF RowsWithKey(rows, d[i].video_id) = {}
                   THEN InsertRow(d[i], t)
                   ELSE ConflictRow(CHOOSE o \in RowsWithKey(rows, d[i].video_id) : TRUE,
                                    d[i], t) : i \in DOMAIN d}
    IN  kept (+) SetToBag(merged)


\* A destination that does not enforce the primary key.
AppendErrorNever(tbl, d) == FALSE

\* The plain INSERTs of to_sql raise on a table with a primary key when a key
\* is already present or comes twice.
AppendError(tbl, d) ==
    tbl.exists /\ tbl.pk /\ (HasDuplicateKey(d) \/ Keys(d) \cap TableKeys(tbl.rows) # {})

\* line 111: df.to_sql(TABLE_NAME, if_exists="append"); an absent table is
\* created from the DataFrame's columns: no primary key, no loaded_at (0)
AppendTo(tbl, d, t) ==
    IF tbl.exists
    THEN [tbl EXCEPT !.rows = @ (+) SeqToBag(d, IF tbl.pk THEN t ELSE 0)]
    ELSE [exists |-> TRUE, pk |-> FALSE, rows |-> SeqToBag(d, 0)]

\* A DDL that recreates the table: DROP TABLE IF EXISTS, then CREATE TABLE.
EnsureRecreate(tbl) == EnsuredTable

\* CREATE TABLE IF NOT EXISTS
Ensure(tbl) == IF tbl.exists THEN tbl ELSE EnsuredTable

\* A staging table created without waiting for the other transaction.
CanStageAlways(r) == TRUE

\* CREATE TABLE _tmp_youtube_load waits while another open transaction has
\* created a table of that name.
CanStage(r) == writer = NoClient

\* Statements committed one by one (no transaction around them).
RolledBackKeeps(committed, pending) == pending

\* What the destination holds after a transaction that raised: engine.begin()
\* rolls back.
RolledBack(committed, pending) == committed

\* What the destination holds after engine.begin() exits normally.
Committed(committed, pending) == pending

\* The record of a completed load_csv call: its CSV, whether it returned (ok)
\* or raised (err: the statement was refused, or the connection failed),
\* whether its merge or append had been executed, the committed table when it
\* began, its NOW(), and whether it repeats the CSV of the call before it,
\* which had returned.
NoCall == [csv |-> <<>>, ok |-> FALSE, err |-> "none", merged |-> FALSE,
           before |-> NoTable, t |-> 0, rerun |-> FALSE]
Call(r, ok, err) ==
    [csv |-> csv[r], ok |-> ok, err |-> err,
     merged |-> pc[r] \in {"merged", "dropped", "appended"},
     before |-> before[r], t |-> txnTime[r],
     rerun |-> last.ok /\ last.csv = csv[r]]

InitSinkVars ==
    /\ table = NoTable
    /\ stage = NoStage
    /\ writer = NoClient
    /\ clock = 0
    /\ pc = [r \in Clients |-> "idle"]
    /\ df = [r \in Clients |-> <<>>]
    /\ csv = [r \in Clients |-> <<>>]
    /\ txnTime = [r \in Clients |-> 0]
    /\ work = [r \in Clients |-> NoTable]
    /\ before = [r \in Clients |-> NoTable]
    /\ last = NoCall

\* lines 65-80, the DDL committed
EnsureTable(r) ==
    /\ pc[r] = "idle"
    /\ table.exists \/ writer = NoClient
    /\ table' = Ensure(table)
    /\ UNCHANGED <<fvars, xvars, dialect, stage, writer, clock, pc, df, csv, txnTime, work,
                   before, last>>

\* lines 78-79 raising (the connection fails): nothing is created
EnsureTableFail(r) ==
    /\ pc[r] = "idle"
    /\ UNCHANGED vars

\* lines 85-93: the CSV is read and converted, the transaction begins
BeginLoad(r, b) ==
    /\ csv' = [csv EXCEPT ![r] = b]
    /\ df' = [df EXCEPT ![r] = ReadCsv(b)]
    /\ clock' = clock + 1
    /\ txnTime' = [txnTime EXCEPT ![r] = clock + 1]
    /\ before' = [before EXCEPT ![r] = table]
    /\ work' = [work EXCEPT ![r] = table]
    /\ pc' = [pc EXCEPT ![r] = "begun"]
    /\ UNCHANGED <<dialect, table, stage, writer, last>>

\* load_csv called directly (the CLI loop, a test), at most cap times
LoadBegin(r, b, cap) ==
    /\ pc[r] = "idle"
    /\ clock < cap
    /\ BeginLoad(r, b)
    /\ UNCHANGED <<fvars, xvars>>

\* How a call ends: the transaction is over, the call is recorded.
Finish(r, err, after) ==
    /\ table' = after
    /\ writer' = IF writer = r THEN NoClient ELSE writer
    /\ stage' = IF writer = r THEN NoStage ELSE stage
    /\ pc' = [pc EXCEPT ![r] = "idle"]
    /\ last' = Call(r, err = "none", err)
    /\ df' = [df EXCEPT ![r] = <<>>]
    /\ csv' = [csv EXCEPT ![r] = <<>>]
    /\ work' = [work EXCEPT ![r] = NoTable]
    /\ before' = [before EXCEPT ![r] = NoTable]
    /\ UNCHANGED <<fvars, xvars, dialect, clock, txnTime>>

\* line 96: to_sql(temp_table, if_exists="replace")
LoadStage(r) ==
    /\ pc[r] = "begun"
    /\ dialect = "postgresql"
    /\ CanStage(r)
    /\ stage' = [exists |-> TRUE, rows |-> df[r]]
    /\ writer' = r
    /\ pc' = [pc EXCEPT ![r] = "staged"]
    /\ UNCHANGED <<fvars, xvars, dialect, table, clock, df, csv, txnTime, work,
                   before, last>>

\* line 108: the merge statement, reading the staged rows
LoadMerge(r) ==
    /\ pc[r] = "staged"
    /\ IF ~stage.exists \/ MergeError(table, stage.rows)
       THEN Finish(r, "statement", RolledBack(table, work[r]))
       ELSE /\ work' = [work EXCEPT ![r] =
                           [table EXCEPT !.rows = Upsert(@, stage.rows, txnTime[r])]]
            /\ pc' = [pc EXCEPT ![r] = "merged"]
            /\ UNCHANGED <<fvars, xvars, dialect, table, stage, writer, clock, df, csv, txnTime,
                           before, last>>

\* line 109: DROP TABLE _tmp_youtube_load
LoadDrop(r) ==
    /\ pc[r] = "merged"
    /\ IF ~stage.exists
       THEN Finish(r, "statement", RolledBack(table, work[r]))
       ELSE /\ stage' = NoStage
            /\ pc' = [pc EXCEPT ![r] = "dropped"]
            /\ UNCHANGED <<fvars, xvars, dialect, table, writer, clock, df, csv, txnTime, work,
                           before, last>>

\* line 111: the append of the other dialects
LoadAppend(r) ==
    /\ pc[r] = "begun"
    /\ dialect # "postgresql"
    /\ writer = NoClient
    /\ IF AppendError(table, df[r])
       THEN Finish(r, "statement", RolledBack(table, work[r]))
       ELSE /\ work' = [work EXCEPT ![r] = AppendTo(table, df[r], txnTime[r])]
            /\ writer' = r
            /\ pc' = [pc EXCEPT ![r] = "appended"]
            /\ UNCHANGED <<fvars, xvars, dialect, table, stage, clock, df, csv, txnTime,
                           before, last>>

\* the with block of line 93 exits: COMMIT
LoadCommit(r) ==
    /\ pc[r] \in {"dropped", "appended"}
    /\ Finish(r, "none", Committed(table, work[r]))

\* a statement of the with block raises for a reason of the destination's
\* (connection lost, statement refused): ROLLBACK, the error propagates
LoadFail(r) ==
    /\ pc[r] \in {"begun", "staged", "merged", "dropped", "appended"}
    /\ Finish(r, "connection", RolledBack(table, work[r]))

SinkStep(r) ==
    \/ EnsureTable(r)
    \/ EnsureTableFail(r)
    \/ \E b \in Batches : LoadBegin(r, b, MaxLoads)
    \/ LoadStage(r)
    \/ LoadMerge(r)
    \/ LoadDrop(r)
    \/ LoadAppend(r)
    \/ LoadCommit(r)
    \/ LoadFail(r)

(***************************************************************************)
(* SINK WRITER: run_load                                                   *)
(*                                                                         *)
(* The Airflow task: the client "r1" checks its parameters, pulls the      *)
(* handoff, connects, ensures the table and loads the CSVs in list order.  *)
(* An exception of a step leaves run_load at once (there is no try).       *)
(***************************************************************************)
Runner == "r1"

\* xcom_pull returns None when nothing was pushed under the key.
Absent == [present |-> FALSE, list |-> <<>>]
\* a list that was pushed
Handoff(l) == [present |-> TRUE, list |-> l]

\* The CSVs a handoff is made of: V1 with either title, V2, and a CSV naming
\* V1 twice (which the postgresql merge refuses).
RunBatches ==
    {<<RowList[1]>>, <<RowList[2]>>, <<RowList[3]>>, <<RowList[1], RowList[2]>>}

\* The handoffs tried: none, or a list of zero to two CSVs.
Handoffs ==
    {Absent} \cup {Handoff(l) : l \in UNION {[1..n -> RunBatches] : n \in 0..2}}

\* A test for None only: `if processed_paths is None`.
FalsyOnlyNone(v) == ~v.present

\* `not processed_paths`
Falsy(v) == ~v.present \/ v.list = <<>>

\* load_csv of the artifact in hand has raised
LoadRaised == rl_i >= 1 /\ pc[Runner] = "idle" /\ ~last.ok

InitIdleRun ==
    /\ rl_pc = "start"
    /\ db_url = FALSE
    /\ processed_paths = Absent
    /\ rl_i = 0
    /\ rl_err = "none"
    /\ rl_ops = {}
    /\ rl_runs = 0

\* an exception leaves run_load
Raise(exc) ==
    /\ rl_pc' = "raised"
    /\ rl_err' = exc

\* lines 125-128
RunStart ==
    /\ rl_pc = "start"
    /\ IF db_url
       THEN rl_pc' = "pull" /\ UNCHANGED rl_err
       ELSE Raise("RuntimeError")
    /\ UNCHANGED <<db_url, processed_paths, rl_i, rl_ops, rl_runs>>
    /\ UNCHANGED <<fvars, svars, evars, cvars>>

\* lines 130-132
RunPull ==
    /\ rl_pc = "pull"
    /\ IF Falsy(processed_paths)
       THEN Raise("ValueError")
       ELSE rl_pc' = "connect" /\ UNCHANGED rl_err
    /\ UNCHANGED <<db_url, processed_paths, rl_i, rl_ops, rl_runs>>
    /\ UNCHANGED <<fvars, svars, evars, cvars>>

\* line 134, get_engine returns
RunGetEngine ==
    /\ rl_pc = "connect"
    /\ rl_ops' = rl_ops \cup {"connect"}
    /\ rl_pc' = "ensure"
    /\ UNCHANGED <<db_url, processed_paths, rl_i, rl_err, rl_runs>>
    /\ UNCHANGED <<fvars, svars, evars, cvars>>

\* line 134, get_engine re-raises the SQLAlchemyError of its connection test
RunGetEngineFail ==
    /\ rl_pc = "connect"
    /\ rl_ops' = rl_ops \cup {"connect"}
    /\ Raise("SQLAlchemyError")
    /\ UNCHANGED <<db_url, processed_paths, rl_i, rl_runs>>
    /\ UNCHANGED <<fvars, svars, evars, cvars>>

\* line 135, the DDL committed
RunEnsureTable ==
    /\ rl_pc = "ensure"
    /\ table' = Ensure(table)
    /\ rl_ops' = rl_ops \cup {"ensure"}
    /\ rl_pc' = "loop"
    /\ UNCHANGED <<db_url, processed_paths, rl_i, rl_err, rl_runs>>
    /\ UNCHANGED <<dialect, stage, writer, clock, pc, df, csv, txnTime, work,
                   before, last>>
    /\ UNCHANGED <<fvars, evars, cvars>>

\* line 135, the DDL raises: nothing is created
RunEnsureTableFail ==
    /\ rl_pc = "ensure"
    /\ rl_ops' = rl_ops \cup {"ensure"}
    /\ Raise("SQLAlchemyError")
    /\ UNCHANGED <<db_url, processed_paths, rl_i, rl_runs>>
    /\ UNCHANGED <<fvars, svars, evars, cvars>>

\* lines 137-138: the next CSV of the list is handed to load_csv
RunLoadBegin ==
    /\ rl_pc = "loop"
    /\ pc[Runner] = "idle"
    /\ ~LoadRaised
    /\ rl_i < Len(processed_paths.list)
    /\ BeginLoad(Runner, processed_paths.list[rl_i + 1])
    /\ rl_i' = rl_i + 1
    /\ rl_ops' = rl_ops \cup {"load"}
    /\ UNCHANGED <<rl_pc, db_url, processed_paths, rl_err, rl_runs>>
    /\ UNCHANGED <<fvars, evars, cvars>>

\* The exception of load_csv caught and dropped: run_load returns normally.
RunRaiseSwallowed ==
    /\ rl_pc = "loop"
    /\ LoadRaised
    /\ rl_pc' = "returned"
    /\ UNCHANGED <<db_url, processed_paths, rl_i, rl_err, rl_ops, rl_runs>>
    /\ UNCHANGED <<fvars, svars, evars, cvars>>

\* line 138: the exception of load_csv leaves the loop and run_load
RunRaise ==
    /\ rl_pc = "loop"
    /\ LoadRaised
    /\ Raise("SQLAlchemyError")
    /\ UNCHANGED <<db_url, processed_paths, rl_i, rl_ops, rl_runs>>
    /\ UNCHANGED <<fvars, svars, evars, cvars>>

\* line 137 exhausted: run_load returns
RunReturn ==
    /\ rl_pc = "loop"
    /\ pc[Runner] = "idle"
    /\ ~LoadRaised
    /\ rl_i = Len(processed_paths.list)
    /\ rl_pc' = "returned"
    /\ UNCHANGED <<db_url, processed_paths, rl_i, rl_err, rl_ops, rl_runs>>
    /\ UNCHANGED <<fvars, svars, evars, cvars>>

\* the scheduler invokes the task again (the daily schedule, the retry of
\* default_args) with whatever the upstream task handed over
RunAgain ==
    /\ rl_pc \in {"returned", "raised"}
    /\ rl_runs < MaxRuns
    /\ rl_runs' = rl_runs + 1
    /\ processed_paths' \in Handoffs
    /\ rl_pc' = "start"
    /\ rl_i' = 0
    /\ rl_err' = "none"
    /\ rl_ops' = {}
    /\ UNCHANGED db_url
    /\ UNCHANGED <<fvars, svars, evars, cvars>>

NextRun ==
    \/ RunStart
    \/ RunPull
    \/ RunGetEngine
    \/ RunGetEngineFail
    \/ RunEnsureTable
    \/ RunEnsureTableFail
    \/ RunLoadBegin
    \/ RunRaise
    \/ RunReturn
    \/ RunAgain
    \/ LoadStage(Runner)
    \/ LoadMerge(Runner)
    \/ LoadDrop(Runner)
    \/ LoadAppend(Runner)
    \/ LoadCommit(Runner)
    \/ LoadFail(Runner)

(***************************************************************************)
(* FETCHER: run_extract and save_response                                  *)
(*                                                                         *)
(* A query is a sequence of characters.  The clock counts half seconds;    *)
(* the file name carries the time cut to the whole second.  RAW_DATA_DIR   *)
(* is a set of files [path, data, writes]: data is what the last write     *)
(* stored (the query it was fetched for and its place in the query list),  *)
(* writes counts the times the path was opened for writing.                *)
(***************************************************************************)
NotPushed == [pushed |-> FALSE, value |-> <<>>]
Pushed(v) == [pushed |-> TRUE, value |-> v]
NoFiles == {}

\* The queries tried: "a b", "a_b" and "k", in lists of zero to two.
Queries == {<<"a", " ", "b">>, <<"a", "_", "b">>, <<"k">>}
QueryLists == UNION {[1..n -> Queries] : n \in 0..2}

\* query.replace(' ', '_')
Replace(q) == [i \in DOMAIN q |-> IF q[i] = " " THEN "_" ELSE q[i]]

\* datetime.utcnow().strftime("%Y-%m-%dT%H-%M-%SZ") at half second t
DateStr(t) == t \div 2

\* RAW_DATA_DIR / f"{date_str}_{query.replace(' ', '_')}.json"
FileName(t, q) == [date |-> DateStr(t), name |-> Replace(q)]

\* times the path was opened for writing
Writes(fs, p) == IF \E f \in fs : f.path = p
                 THEN (CHOOSE f \in fs : f.path = p).writes
                 ELSE 0

\* filename.open("w") and json.dump: the file is created or overwritten
WriteFile(fs, p, d) ==
    {f \in fs : f.path # p} \cup
    {[path |-> p, data |-> d, writes |-> Writes(fs, p) + 1]}

\* lines 97-103
ExtractStart ==
    /\ x_pc = "start"
    /\ paths' = <<>>
    /\ x_i' = 0
    /\ x_pc' = "loop"
    /\ UNCHANGED <<query_list, files, now, xcom>>
    /\ UNCHANGED <<fvars, svars, rvars, cvars>>

\* time passes while run_extract runs
Tick ==
    /\ x_pc \in {"loop", "save"}
    /\ now < MaxTicks
    /\ now' = now + 1
    /\ UNCHANGED <<x_pc, query_list, x_i, paths, files, xcom>>
    /\ UNCHANGED <<fvars, svars, rvars, cvars>>

\* line 105: extract_videos_for_query returns the items of the next query
ExtractFetch ==
    /\ x_pc = "loop"
    /\ x_i < Len(query_list)
    /\ api_key
    /\ x_i' = x_i + 1
    /\ x_pc' = "save"
    /\ UNCHANGED <<query_list, paths, files, now, xcom>>
    /\ UNCHANGED <<fvars, svars, rvars, cvars>>

\* The fetch fails, and what was saved so far is pushed before the error
\* leaves run_extract.
ExtractFetchFailPushes ==
    /\ x_pc = "loop"
    /\ x_i < Len(query_list)
    /\ x_i' = x_i + 1
    /\ xcom' = Pushed(paths)
    /\ x_pc' = "raised"
    /\ UNCHANGED <<query_list, paths, files, now>>
    /\ UNCHANGED <<fvars, svars, rvars, cvars>>

\* line 105: extract_videos_for_query raises (RuntimeError for the missing
\* key, lines 55-57, or an exception of the request that is not an
\* HttpError); nothing catches it
ExtractFetchFail ==
    /\ x_pc = "loop"
    /\ x_i < Len(query_list)
    /\ x_i' = x_i + 1
    /\ x_pc' = "raised"
    /\ UNCHANGED <<query_list, paths, files, now, xcom>>
    /\ UNCHANGED <<fvars, svars, rvars, cvars>>

\* lines 106-107 with save_response, lines 41-47
ExtractSave ==
    /\ x_pc = "save"
    /\ files' = WriteFile(files, FileName(now, query_list[x_i]),
                          [query |-> query_list[x_i], at |-> x_i])
    /\ paths' = Append(paths, FileName(now, query_list[x_i]))
    /\ x_pc' = "loop"
    /\ UNCHANGED <<query_list, x_i, now, xcom>>
    /\ UNCHANGED <<fvars, svars, rvars, cvars>>

\* line 106: save_response raises (the file cannot be opened); nothing
\* catches it
ExtractSaveFail ==
    /\ x_pc = "save"
    /\ x_pc' = "raised"
    /\ UNCHANGED <<query_list, x_i, paths, files, now, xcom>>
    /\ UNCHANGED <<fvars, svars, rvars, cvars>>

\* line 109, after the loop
ExtractPush ==
    /\ x_pc = "loop"
    /\ x_i = Len(query_list)
    /\ xcom' = Pushed(paths)
    /\ x_pc' = "pushed"
    /\ UNCHANGED <<query_list, x_i, paths, files, now>>
    /\ UNCHANGED <<fvars, svars, rvars, cvars>>

NextExtract ==
    \/ ExtractStart
    \/ Tick
    \/ ExtractFetch
    \/ ExtractFetchFail
    \/ ExtractSave
    \/ ExtractSaveFail
    \/ ExtractPush

InitIdleExtract ==
    /\ x_pc = "start"
    /\ query_list = <<>>
    /\ x_i = 0
    /\ paths = <<>>
    /\ files = NoFiles
    /\ now = 0
    /\ xcom = NotPushed

(***************************************************************************)
(* SINK WRITER: two orders of loading                                      *)
(*                                                                         *)
(* load_csv as one step (nothing else touches the destination): two CSVs A *)
(* and B are loaded into two copies of one starting table of a postgresql  *)
(* destination, A first into one copy, B first into the other.             *)
(***************************************************************************)
\* A load that replaces the table by the CSV: to_sql(if_exists="replace").
LoadCsvReplace(tbl, b, t) == [tbl EXCEPT !.rows = SeqToBag(ReadCsv(b), t)]

\* lines 86-109 on postgresql, from read_csv to the commit or the rollback
LoadCsv(tbl, b, t) ==
    IF MergeError(tbl, ReadCsv(b))
    THEN RolledBack(tbl, tbl)
    ELSE Committed(tbl, [tbl EXCEPT !.rows = Upsert(@, ReadCsv(b), t)])

\* The starting tables: the table of ensure_table, empty or after one load.
StartTables ==
    {EnsuredTable} \cup {LoadCsv(EnsuredTable, b, 0) : b \in Batches}

\* the first load of either order
CommFirst ==
    /\ c_pc = "start"
    /\ c_ab' = LoadCsv(c_ab, c_A, 1)
    /\ c_ba' = LoadCsv(c_ba, c_B, 1)
    /\ c_pc' = "half"
    /\ UNCHANGED <<c_A, c_B>>
    /\ UNCHANGED <<fvars, svars, rvars, evars>>

\* the second load of either order
CommSecond ==
    /\ c_pc = "half"
    /\ c_ab' = LoadCsv(c_ab, c_B, 2)
    /\ c_ba' = LoadCsv(c_ba, c_A, 2)
    /\ c_pc' = "both"
    /\ UNCHANGED <<c_A, c_B>>
    /\ UNCHANGED <<fvars, svars, rvars, evars>>

NextComm ==
    \/ CommFirst
    \/ CommSecond

InitIdleComm ==
    /\ c_pc = "both"
    /\ c_A = <<>>
    /\ c_B = <<>>
    /\ c_ab = NoTable
    /\ c_ba = NoTable

(***************************************************************************)
(* Specifications.                                                         *)
(***************************************************************************)
InitFetch ==
    /\ api_key \in BOOLEAN
    /\ max_total \in MaxTotals
    /\ InitFetchVars
    /\ dialect = "postgresql"
    /\ InitSinkVars
    /\ InitIdleRun /\ InitIdleExtract /\ InitIdleComm

\* Values of max_total tried against the API without end.
LiveTotals == {0, 1, 20, 21, 51}

InitFetchLive ==
    /\ api_key \in BOOLEAN
    /\ max_total \in LiveTotals
    /\ InitFetchVars
    /\ dialect = "postgresql"
    /\ InitSinkVars
    /\ InitIdleRun /\ InitIdleExtract /\ InitIdleComm

NextFetchLive ==
    \/ FetchStart
    \/ FetchLoopExit
    \/ FetchRequestUncounted
    \/ FetchHttpError
    \/ FetchHttpErrorAgain
    \/ FetchEmptyPage
    \/ FetchPageEndless

InitIdleFetch ==
    /\ api_key = TRUE
    /\ max_total = 0
    /\ InitFetchVars

Init ==
    /\ InitIdleFetch
    /\ dialect \in {"postgresql", "other"}
    /\ InitSinkVars
    /\ InitIdleRun /\ InitIdleExtract /\ InitIdleComm

\* one invocation of run_extract
InitExtract ==
    /\ api_key \in BOOLEAN
    /\ max_total = 0
    /\ InitFetchVars
    /\ dialect = "postgresql"
    /\ InitSinkVars
    /\ InitIdleRun /\ InitIdleComm
    /\ x_pc = "start"
    /\ query_list \in QueryLists
    /\ x_i = 0
    /\ paths = <<>>
    /\ files = NoFiles
    /\ now = 0
    /\ xcom = NotPushed

\* two CSVs and a starting table, on postgresql
InitComm ==
    /\ InitIdleFetch
    /\ dialect = "postgresql"
    /\ InitSinkVars
    /\ InitIdleRun /\ InitIdleExtract
    /\ c_pc = "start"
    /\ c_A \in Batches
    /\ c_B \in Batches
    /\ c_ab \in StartTables
    /\ c_ba = c_ab

\* run_load invoked by the scheduler, up to MaxRuns times in a row
InitRun ==
    /\ InitIdleFetch
    /\ dialect \in {"postgresql", "other"}
    /\ InitSinkVars
    /\ rl_pc = "start"
    /\ db_url \in BOOLEAN
    /\ processed_paths \in Handoffs
    /\ rl_i = 0
    /\ rl_err = "none"
    /\ rl_ops = {}
    /\ rl_runs = 1
    /\ InitIdleExtract /\ InitIdleComm

Next == SinkStep("r1")

\* Two clients on a postgresql destination; their CSVs are made of the first
\* three rows (V1 with either title, V2), dates well-formed.
ConcBatches ==
    {b \in Batches : \A i \in DOMAIN b : b[i] \in {RowList[1], RowList[2], RowList[3]}}

InitConc ==
    /\ InitIdleFetch
    /\ dialect = "postgresql"
    /\ InitSinkVars
    /\ InitIdleRun /\ InitIdleExtract /\ InitIdleComm

NextConc ==
    \E r \in Clients :
        \/ EnsureTable(r)
        \/ EnsureTableFail(r)
        \/ \E b \in ConcBatches : LoadBegin(r, b, MaxConcLoads)
        \/ LoadStage(r)
        \/ LoadMerge(r)
        \/ LoadDrop(r)
        \/ LoadCommit(r)
        \/ LoadFail(r)

SpecFetch == InitFetch /\ [][NextFetch]_vars
\* The interpreter takes the program's own steps; every page request is
\* answered, and the answer is not an HttpError for ever.
SpecFetchLive ==
    /\ InitFetchLive
    /\ [][NextFetchLive]_vars
    /\ WF_vars(FetchStart)
    /\ WF_vars(FetchLoopExit)
    /\ WF_vars(FetchRequestUncounted)
    /\ SF_vars(FetchEmptyPage \/ FetchPageEndless)
Spec == Init /\ [][Next]_vars
SpecConc == InitConc /\ [][NextConc]_vars
SpecRun == InitRun /\ [][NextRun]_vars
SpecComm == InitComm /\ [][NextComm]_vars
SpecExtract == InitExtract /\ [][NextExtract]_vars

(***************************************************************************)
(* CLAIMS                                                                  *)
(***************************************************************************)
ParsedGoodDate == "2024-05-01 10:00:00"
DataOf(x) == [video_id |-> x.video_id, title |-> x.title, published_at |-> x.published_at]
DataSet(rows) == {DataOf(x) : x \in BagToSet(rows)}
\* no row twice, no video_id on two rows
Unique(rows) ==
    \A x \in BagToSet(rows) :
        /\ rows[x] = 1
        /\ \A y \in BagToSet(rows) : x.video_id = y.video_id => x = y
\* the rows whose video_id is not among keys
Outside(rows, keys) == {x \in BagToSet(rows) : x.video_id \notin keys}

\* C1: when extract_videos_for_query returns, the length of its result is
\* min(max_total, items available): it is the number of items the API served
\* when that is below max_total, which happens only when the API's result set
\* ended (an empty page, or a page without token), and max_total otherwise,
\* also when the last page overshot.
C1_LengthIsMinOfCapAndAvailable ==
    f_pc = "done" =>
        /\ Count(result) = Min(max_total, Count(collected))
        /\ Count(result) <= max_total
        /\ Count(collected) < max_total => lastResp \in {"empty", "last"}
        /\ result = Take(collected, max_total)

\* C1 witness: a call that was answered an HttpError, got a last page larger
\* than what was left to fetch, and returned exactly max_total items.
C1_Witness ==
    /\ f_pc = "done"
    /\ failures > 0
    /\ max_total > 0
    /\ Count(collected) > max_total
    /\ Count(result) = max_total

\* C5: once a page came without continuation token the call is over: it has
\* returned the items accumulated so far, below max_total or not, and it
\* issues no further request.
C5_AbsentTokenEndsPagination ==
    /\ [](lastResp = "last" =>
            /\ f_pc = "done"
            /\ result = Take(collected, max_total))
    /\ [][lastResp = "last" => requests' = requests /\ collected' = collected]_vars

\* C5 witness: the second page came without token while fewer than max_total
\* items had been accumulated.
C5_Witness ==
    /\ lastResp = "last"
    /\ requests = 2
    /\ Count(collected) < max_total
    /\ f_pc = "done"
    /\ Count(result) = Count(collected)

C3_UpsertOverwritesAndFrames ==
    (last.ok /\ dialect = "postgresql") =>
        /\ \A i \in DOMAIN last.csv :
             /\ Cardinality(RowsWithKey(table.rows, last.csv[i].video_id)) = 1
             /\ \A x \in RowsWithKey(table.rows, last.csv[i].video_id) :
                  /\ table.rows[x] = 1
                  /\ x.title = last.csv[i].title
                  /\ x.published_at = ToDatetime(last.csv[i].published_at)
        /\ Outside(table.rows, Keys(last.csv)) = Outside(last.before.rows, Keys(last.csv))
        /\ \A x \in Outside(table.rows, Keys(last.csv)) : table.rows[x] = last.before.rows[x]

\* C3 witness: V1 had title A, the CSV gave it title B, and the row of V2,
\* which the CSV does not name, is still there.
C3_Witness ==
    /\ last.ok
    /\ dialect = "postgresql"
    /\ Keys(last.csv) = {"V1"}
    /\ \E x \in BagToSet(last.before.rows) : x.video_id = "V1" /\ x.title = "A"
    /\ \E x \in BagToSet(table.rows) : x.video_id = "V1" /\ x.title = "B"
    /\ \E x \in BagToSet(table.rows) : x.video_id = "V2"

\* C4: after a load_csv that returned on postgresql, every row whose video_id
\* is in the CSV carries the NOW() of that load as loaded_at.
C4_LoadedAtRefreshed ==
    (last.ok /\ dialect = "postgresql") =>
        \A x \in BagToSet(table.rows) :
            x.video_id \in Keys(last.csv) => x.loaded_at = last.t

\* C6 as stated: the table never holds two rows of one video_id.
C6_AtMostOneRowPerVideoId == Unique(table.rows)

\* C6: a table created by ensure_table, which is every table of a postgresql
\* destination, never holds two rows of one video_id.
C6_EnsuredTableHasUniqueKeys ==
    (table.pk \/ dialect = "postgresql") => Unique(table.rows)

\* C6 witness: on a table created by ensure_table that holds both video_ids
\* the append of a CSV naming them again was refused.
C6_Witness ==
    /\ table.pk
    /\ dialect = "other"
    /\ BagCardinality(table.rows) = 2
    /\ last.err = "statement"
    /\ Keys(last.csv) \cap TableKeys(table.rows) # {}

\* C7: a load_csv call whose CSV names one video_id twice, on a table created
\* by ensure_table and with the connection holding, returns and leaves exactly
\* one row for that video_id.
C7_DuplicateIdsRecoveredAtSink ==
    (/\ last.csv # <<>>
     /\ HasDuplicateKey(last.csv)
     /\ last.before.pk
     /\ dialect = "postgresql"
     /\ last.err # "connection") =>
        /\ last.ok
        /\ \A k \in Keys(last.csv) : Cardinality(RowsWithKey(table.rows, k)) = 1

\* C8: the committed table, which is what a concurrent reader sees, changes
\* only by ensure_table creating it or by a load_csv committing, and then all
\* rows of the CSV are there and the rows of other video_ids are untouched;
\* a load_csv that raises leaves the committed table as it was.
C8_MergeIsAtomic ==
    [][/\ table' # table =>
            \/ ~table.exists /\ table' = EnsuredTable
            \/ \E r \in Clients :
                /\ pc[r] = "dropped"
                /\ pc'[r] = "idle"
                /\ last'.ok
                /\ \A i \in DOMAIN df[r] :
                     \E x \in BagToSet(table'.rows) :
                        /\ table'.rows[x] = 1
                        /\ DataOf(x) = df[r][i]
                /\ Outside(table'.rows, Keys(df[r])) = Outside(table.rows, Keys(df[r]))
       /\ (last' # last /\ ~last'.ok) => table' = table
      ]_vars

\* C8 witness: a call lost its connection after its merge had been executed,
\* while the other client was inside load_csv, and the table is still the one
\* from before the call, without the CSV's video_ids.
C8_Witness ==
    /\ last.err = "connection"
    /\ last.merged
    /\ table.exists
    /\ table = last.before
    /\ Keys(last.csv) \cap TableKeys(table.rows) = {}
    /\ \E r \in Clients : pc[r] # "idle"

\* C9: while a client is between staging and commit it alone holds the staging
\* table, the staged rows are its own DataFrame until it drops them, and what
\* it is about to commit is its own CSV merged into the table as committed
\* now: the commits of two clients compose as the two loads one after another.
C9_StagingIsIsolated ==
    \A r \in Clients :
        /\ pc[r] \in {"staged", "merged", "dropped"} => writer = r
        /\ pc[r] \in {"staged", "merged"} => stage.exists /\ stage.rows = df[r]
        /\ pc[r] \in {"merged", "dropped"} =>
             work[r] = [table EXCEPT !.rows = Upsert(@, df[r], txnTime[r])]

\* C9 witness: the client whose transaction began first committed last, after
\* the other client's rows had been committed.
C9_Witness ==
    /\ last.ok
    /\ last.t = 1
    /\ \E x \in BagToSet(table.rows) : x.loaded_at = 2
    /\ \E x \in BagToSet(table.rows) : x.loaded_at = 1

\* C10: after a load_csv that returned, every row of the CSV is in the table,
\* with a null published_at where the CSV's value was malformed and the parsed
\* timestamp otherwise, and no row is missing; and a call is refused by the
\* destination only for its keys or the table, never for a date.
C10_MalformedDateBecomesNull ==
    /\ last.ok =>
        /\ \A i \in DOMAIN last.csv :
             \E x \in BagToSet(table.rows) :
                /\ x.video_id = last.csv[i].video_id
                /\ x.title = last.csv[i].title
                /\ x.published_at =
                     IF last.csv[i].published_at = BadDate THEN NaT ELSE ParsedGoodDate
        /\ BagCardinality(table.rows) =
             BagCardinality(last.before.rows) + Len(last.csv)
               - (IF dialect = "postgresql"
                  THEN Cardinality(Keys(last.csv) \cap TableKeys(last.before.rows))
                  ELSE 0)
    /\ last.err = "statement" =>
        \/ HasDuplicateKey(last.csv)
        \/ ~last.before.exists
        \/ ~last.before.pk
        \/ dialect # "postgresql" /\ Keys(last.csv) \cap TableKeys(last.before.rows) # {}

\* C10 witness: a CSV with a malformed date for V1 and a good one for V2 was
\* loaded; both rows are in the table, V1's published_at null.
C10_Witness ==
    /\ last.ok
    /\ Len(last.csv) = 2
    /\ \E x \in BagToSet(table.rows) :
          x.video_id = "V1" /\ x.published_at = NaT /\ x.loaded_at = last.t
    /\ \E x \in BagToSet(table.rows) :
          x.video_id = "V2" /\ x.published_at = ParsedGoodDate /\ x.loaded_at = last.t
    /\ \E i \in DOMAIN last.csv : last.csv[i].published_at = BadDate

\* C11: a missing or empty handoff is an error, not an empty success: when
\* the list run_load pulls is absent (None) or empty, run_load raises
\* (ValueError, or RuntimeError when the database URL is missing as well) and
\* this invocation makes no connection, creates no schema and loads nothing.
C11_EmptyHandoffIsAnError ==
    processed_paths \in {Absent, Handoff(<<>>)} =>
        /\ rl_pc \in {"start", "pull", "raised"}
        /\ rl_pc = "raised" => rl_err \in {"ValueError", "RuntimeError"}
        /\ rl_ops = {}
        /\ pc[Runner] = "idle"

\* run_load has raised ValueError on an empty list, with a database URL set,
\* on a destination an earlier invocation has filled
C11_Witness ==
    /\ rl_pc = "raised"
    /\ rl_err = "ValueError"
    /\ processed_paths = Handoff(<<>>)
    /\ db_url
    /\ rl_runs = 2
    /\ table.exists /\ table.rows # EmptyBag

\* the state run_load leaves behind: raised inside the loop on artifact rl_i,
\* or returned
RunLoadOutcome ==
    /\ (rl_pc = "raised" /\ rl_i >= 1) =>
          /\ rl_err # "none"
          /\ ~last.ok
          /\ last.csv = processed_paths.list[rl_i]
          /\ table = last.before
          /\ stage = NoStage
          /\ pc[Runner] = "idle"
          /\ \A j \in 1..(rl_i - 1) :
                 Keys(processed_paths.list[j]) \subseteq TableKeys(table.rows)
          /\ rl_i >= 2 =>
                 \A x \in {ReadCsv(processed_paths.list[rl_i - 1])[n] :
                               n \in DOMAIN processed_paths.list[rl_i - 1]} :
                     x \in DataSet(table.rows)
    /\ rl_pc = "returned" =>
          /\ rl_err = "none"
          /\ rl_i = Len(processed_paths.list)
          /\ last.ok

\* C12: a failure of load_csv on the k-th artifact of run_load aborts only
\* that batch and propagates: the table is the one committed when artifact k
\* began, which holds the video_ids of artifacts 1..k-1 and the rows of
\* artifact k-1; the exception leaves run_load (which therefore never returns
\* normally after a failed load); and once it has raised, this invocation
\* begins no further transaction: the failed batch is not retried.
C12_FailedBatchAbortsAlone ==
    [][/\ RunLoadOutcome'
       /\ (rl_pc = "raised" /\ rl_runs' = rl_runs) =>
              UNCHANGED <<table, clock, pc, rl_i>>
       /\ (rl_pc = "loop" /\ rl_i >= 1 /\ pc[Runner] = "idle" /\ ~last.ok) =>
              (rl_pc' = "raised" /\ UNCHANGED <<table, clock, pc, rl_i>>)]_vars

\* run_load has raised on its second artifact, a CSV naming V1 twice that the
\* postgresql merge refused, after the first artifact was committed
C12_Witness ==
    /\ rl_pc = "raised"
    /\ rl_i = 2
    /\ dialect = "postgresql"
    /\ last.err = "statement"
    /\ last.csv = <<RowList[1], RowList[2]>>
    /\ table.rows # EmptyBag
    /\ table = last.before

\* the CSVs give every video_id they share the same row
Agree(a, b) ==
    \A i \in DOMAIN a : \A j \in DOMAIN b :
        a[i].video_id = b[j].video_id => a[i] = b[j]

\* C13 as stated: for any two batches A and B and any starting table,
\* loading A then B leaves the same video_ids with the same title and
\* published_at as loading B then A.
C13_UpsertCommutes ==
    c_pc = "both" => DataSet(c_ab.rows) = DataSet(c_ba.rows)

\* C13 amended: loading A then B leaves the same video_ids with the same
\* title and published_at as loading B then A whenever A and B give every
\* video_id they share the same row (in particular when they share none);
\* loaded_at is left aside.
C13_UpsertCommutesWhenBatchesAgree ==
    (c_pc = "both" /\ Agree(c_A, c_B)) => DataSet(c_ab.rows) = DataSet(c_ba.rows)

\* both orders done for two different CSVs that share V1 with the same row:
\* the two tables hold the same data and differ (in loaded_at) all the same
C13_Witness ==
    /\ c_pc = "both"
    /\ Agree(c_A, c_B)
    /\ c_A = <<RowList[1]>>
    /\ c_B = <<RowList[1], RowList[3]>>
    /\ DataSet(c_ab.rows) = {DataOf(ReadCsv(c_B)[1]), DataOf(ReadCsv(c_B)[2])}
    /\ c_ab # c_ba

\* C14: on a destination whose dialect is not postgresql, a load_csv call
\* whose CSV names a video_id already in the table created by ensure_table
\* succeeds (unless the connection fails) and leaves two rows with that
\* video_id.
C14_AppendFallbackPermitsDuplicates ==
    (/\ dialect # "postgresql"
     /\ last.csv # <<>>
     /\ last.err # "connection"
     /\ last.before.exists /\ last.before.pk
     /\ Keys(last.csv) \cap TableKeys(last.before.rows) # {})
    => /\ last.ok
       /\ \A k \in Keys(last.csv) \cap TableKeys(last.before.rows) :
              BagCardinality([x \in RowsWithKey(table.rows, k) |-> table.rows[x]]) >= 2

\* C15: ensure_table is idempotent and non-destructive: every call of it by
\* run_load (before any load, and again after the loads of an earlier
\* invocation, committed or rolled back) leaves a DestinationTable that
\* exists exactly as it was, rows included; it leaves a table in every case,
\* and a second call right after it would change nothing more.
C15_EnsureTableIdempotent ==
    [][(rl_pc = "ensure" /\ rl_pc' = "loop") =>
          /\ table.exists => table' = table
          /\ table'.exists
          /\ Ensure(table') = table']_vars

\* ensure_table has just returned in a second invocation of run_load, on a
\* table that holds rows of the first
C15_Witness ==
    /\ rl_pc = "loop"
    /\ rl_i = 0
    /\ rl_runs = 2
    /\ "ensure" \in rl_ops
    /\ table.exists
    /\ table.rows # EmptyBag

\* C16: an HttpError does not abort extract_videos_for_query and leaves its
\* pagination state unchanged: the answer takes the call back to the loop
\* test with the same accumulated items and the same continuation token; the
\* step after it is a request for the same page with the same maxResults as
\* the failed one; and the pages accumulated are at all times the pages
\* 0, 1, 2, ... in order, none skipped and none fetched twice.
C16_HttpErrorKeepsPagination ==
    /\ [][failures' # failures =>
            /\ f_pc' = "loop"
            /\ collected' = collected
            /\ next_page_token' = next_page_token]_vars
    /\ [][(f_pc = "loop" /\ lastResp = "error") =>
            /\ f_pc' = "wait"
            /\ request' = request]_vars
    /\ [](\A i \in DOMAIN collected : collected[i].page = i - 1)

\* the request for the second page failed and is in flight again: one page of
\* 50 is held, the retry asks for page 1 with maxResults 20
C16_Witness ==
    /\ f_pc = "wait"
    /\ lastResp = "error"
    /\ max_total = 70
    /\ collected = <<[page |-> 0, n |-> 50]>>
    /\ request = [maxResults |-> 20, pageToken |-> 1]
    /\ requests = 3

\* C17: every page request asks for min(50, max_total - items accumulated so
\* far) items, which is between 1 and 50; no request is issued once the call
\* is over, that is once the accumulated count has reached max_total, an
\* empty page was returned or a page came without continuation token; and
\* with max_total = 120 and pages of 50, 50 and 20 items, the last without
\* token and no request failing, the output has 120 items after exactly 3
\* requests.
C17_PageSizeAndStops ==
    /\ [](f_pc = "wait" =>
            /\ request.maxResults = Min(50, max_total - Count(collected))
            /\ request.maxResults \in 1..50)
    /\ [][requests' # requests =>
            /\ Count(collected) < max_total
            /\ lastResp \notin {"empty", "last"}
            /\ f_pc # "done"]_vars
    /\ []((/\ f_pc = "done"
           /\ max_total = 120
           /\ failures = 0
           /\ collected = <<[page |-> 0, n |-> 50], [page |-> 1, n |-> 50],
                            [page |-> 2, n |-> 20]>>
           /\ lastResp = "last")
          => (Count(result) = 120 /\ requests = 3))

\* the scenario: 50, 50 and 20 items, no further token, max_total = 120, and
\* the third request had asked for the 20 items left
C17_Witness ==
    /\ f_pc = "done"
    /\ max_total = 120
    /\ failures = 0
    /\ collected = <<[page |-> 0, n |-> 50], [page |-> 1, n |-> 50],
                     [page |-> 2, n |-> 20]>>
    /\ lastResp = "last"
    /\ request = [maxResults |-> 20, pageToken |-> 2]
    /\ requests = 3
    /\ Count(result) = 120

\* C18: the retry loop is the only way extract_videos_for_query can run for
\* ever.  Against an API that may fail any number of times and may serve
\* non-empty pages with continuation tokens without end, a call whose page
\* requests are each eventually answered with a page terminates, for every
\* max_total; an HttpError answer never ends the call, neither by a return nor
\* by an exception (it goes back to the loop test), so a call whose requests
\* all fail neither returns nor raises: a call that issued a request returns
\* only on a page, and a call raises only for the missing key, before any
\* request.
C18_OnlyRetryLoopRunsForever ==
    /\ <>(f_pc \in {"done", "raised"})
    /\ [][(f_pc = "wait" /\ lastResp' = "error") => f_pc' = "loop"]_vars
    /\ [](f_pc = "done" =>
            \/ max_total <= 0 /\ lastResp = "none"
            \/ lastResp \in {"empty", "last", "more"})
    /\ [](f_pc = "raised" => ~api_key /\ lastResp = "none")

\* a call that returned by the cap alone: 20 pages of one item, each with a
\* continuation token, after more HttpError answers than are counted
C18_Witness ==
    /\ f_pc = "done"
    /\ max_total = 20
    /\ Len(collected) = 20
    /\ next_page_token = 20
    /\ lastResp = "more"
    /\ failures > 0
    /\ Count(result) = 20

\* C19: every Snapshot is written once and never mutated: no path of
\* RAW_DATA_DIR is opened for writing twice, every file still holds what the
\* query it was written for fetched, and the list handed to the next stage
\* names one distinct artifact per query.
C19_SnapshotWrittenOnce ==
    /\ \A f \in files : f.writes = 1
    /\ \A i \in DOMAIN paths :
          \E f \in files : f.path = paths[i] /\ f.data = [query |-> query_list[i], at |-> i]
    /\ xcom.pushed =>
          \A i, j \in DOMAIN xcom.value : i # j => xcom.value[i] # xcom.value[j]

\* C20: no silent success on partial failure in extraction: when the fetch
\* or the snapshot write of a query raises, run_extract is left by the
\* exception with nothing pushed, and nothing is pushed afterwards; a list is
\* pushed only when run_extract has gone through every query, and it then
\* holds one path per query, the i-th being the path saved for the i-th
\* query, which exists.
C20_NoPushOnPartialFailure ==
    /\ [](x_pc = "raised" => ~xcom.pushed)
    /\ [][x_pc = "raised" => UNCHANGED <<x_pc, xcom, paths, files>>]_vars
    /\ [](xcom.pushed =>
            /\ x_pc = "pushed"
            /\ x_i = Len(query_list)
            /\ xcom.value = paths
            /\ Len(xcom.value) = Len(query_list)
            /\ \A i \in DOMAIN xcom.value :
                  /\ xcom.value[i].name = Replace(query_list[i])
                  /\ \E f \in files : f.path = xcom.value[i]
                  /\ \A j \in DOMAIN xcom.value :
                        i <= j => xcom.value[i].date <= xcom.value[j].date)

\* the fetch of the second query raised after the snapshot of the first was
\* saved: run_extract has raised and nothing was pushed
C20_Witness ==
    /\ x_pc = "raised"
    /\ api_key
    /\ Len(query_list) = 2
    /\ x_i = 2
    /\ Len(paths) = 1
    /\ files # NoFiles
    /\ ~xcom.pushed
====
